---- MODULE Spec2Model ----
(***************************************************************************)
(* Model of the two programs of the repository.                            *)
(*                                                                         *)
(* VirtualScroll (velu, VirtualScroll.vue): the reactive state of the      *)
(* component, the part of the scroll container's DOM state the component   *)
(* reads and writes, and the handlers that connect the two.  Lengths and   *)
(* offsets are whole pixels.                                               *)
(*                                                                         *)
(* vite-plugin-version-manager: the plugin's options, package.json, the    *)
(* dist directory and the buildStart and closeBundle hooks of a build, in  *)
(* the two versions of the plugin the repository holds.                    *)
(***************************************************************************)
EXTENDS Integers, Sequences, FiniteSets, TLC

\* ------------------------------------------------------------------ bounds
MaxItems == 6
MaxItemHeight == 2
MaxViewport == 2
MaxBufferProp == 1
MaxIndex == 4
MaxOffset == 16
MaxBuilds == 3
MaxDigits == 2

\* ------------------------------------------------------- program constants
defaultBuffer == 5

VARIABLES
    itemsLength,            \* props.items.length
    itemHeight,             \* props.itemHeight
    bufferProp,             \* props.buffer: <<>> when omitted, <<b>> when supplied
    containerRef,           \* TRUE when containerRef.value is the mounted element
    scrollTop,              \* scrollTop.value
    actualContainerHeight,  \* actualContainerHeight.value
    elScrollTop,            \* the container element's scrollTop
    clientHeight,           \* the container element's clientHeight
    scrollEventQueued,      \* a scroll event of the element awaits its listener
    nextTickQueued,         \* the nextTick callback of onMounted awaits its turn
    emitted,                \* the 'visible-change' payloads the last operation emitted
    notified,               \* the payload of the latest 'visible-change', <<>> before the first
    lastEvent,              \* the operation that produced this state and its argument
    pluginFile,             \* the version of the plugin in use: "index.ts" or "part_000"
    nodeEnv,                \* process.env.NODE_ENV
    options,                \* the options the plugin was created with
    packageJson,            \* package.json: its version and lastBuildTime
    distExists,             \* TRUE when the dist directory exists
    distEntries,            \* the entries of the dist directory
    phase,                  \* where the build stands: "idle", "bundling", "bundled"
    builds,                 \* the builds started so far; the clock of the time stamps
    pluginEvent,            \* the hook that produced this state, its I/O failure, its result
    atHookStart,            \* package.json and dist as that hook found them
    completed               \* the first version, and the builds both hooks saw through

componentVars == <<itemsLength, itemHeight, bufferProp, containerRef, scrollTop,
                   actualContainerHeight, elScrollTop, clientHeight,
                   scrollEventQueued, nextTickQueued, emitted, notified,
                   lastEvent>>

pluginVars == <<pluginFile, nodeEnv, options, packageJson, distExists,
                distEntries, phase, builds, pluginEvent, atHookStart,
                completed>>

vars == <<componentVars, pluginVars>>

Max(a, b) == IF a >= b THEN a ELSE b
Min(a, b) == IF a <= b THEN a ELSE b

\* ------------------------------------------------ JavaScript number values
\* The results of the component's arithmetic: a finite number, NaN or Infinity.
Num(n) == [kind |-> "number", v |-> n]
NaN == [kind |-> "NaN", v |-> 0]
Infinity == [kind |-> "Infinity", v |-> 0]
IsFinite(x) == x.kind = "number"

\* Math.floor(a / b) for a >= 0, b >= 0
MathFloorDiv(a, b) ==
    IF b = 0 THEN (IF a = 0 THEN NaN ELSE Infinity) ELSE Num(a \div b)

\* Math.ceil(a / b) for a >= 0, b >= 0
MathCeilDiv(a, b) ==
    IF b = 0 THEN (IF a = 0 THEN NaN ELSE Infinity) ELSE Num(-((-a) \div b))

\* x - n and x + n for a finite n
JsMinus(x, n) == IF IsFinite(x) THEN Num(x.v - n) ELSE x
JsPlus(x, n) == IF IsFinite(x) THEN Num(x.v + n) ELSE x

\* Math.max(n, x) and Math.min(n, x) for a finite n
MathMax(n, x) == IF IsFinite(x) THEN Num(Max(n, x.v)) ELSE x
MathMin(n, x) ==
    IF IsFinite(x) THEN Num(Min(n, x.v))
    ELSE IF x.kind = "Infinity" THEN Num(n) ELSE NaN

\* x * n for a finite n >= 0
JsTimes(x, n) ==
    IF IsFinite(x) THEN Num(x.v * n)
    ELSE IF x.kind = "Infinity" /\ n > 0 THEN Infinity ELSE NaN

\* --------------------------------------------------------- computed values
BufferProps == {<<>>} \cup {<<b>> : b \in 0..MaxBufferProp}

\* props.buffer || defaultBuffer
bufferOf(prop) ==
    IF prop = <<>> \/ prop[1] = 0 THEN defaultBuffer ELSE prop[1]

buffer == bufferOf(bufferProp)

\* visibleRange with Math.floor in place of Math.ceil for the end
computeVisibleRangeFloorEnd(top, height, rowHeight, buf, length) ==
    LET start == JsMinus(MathFloorDiv(top, rowHeight), buf)
        end == JsPlus(MathFloorDiv(top + height, rowHeight), buf)
    IN  [start |-> MathMax(0, start), end |-> MathMin(length, end)]

\* visibleRange with the operands of the start's subtraction exchanged
computeVisibleRangeSwappedStart(top, height, rowHeight, buf, length) ==
    LET row == MathFloorDiv(top, rowHeight)
        start == IF IsFinite(row) THEN Num(buf - row.v) ELSE row
        end == JsPlus(MathCeilDiv(top + height, rowHeight), buf)
    IN  [start |-> MathMax(0, start), end |-> MathMin(length, end)]

\* the body of the computed visibleRange, on explicit inputs
computeVisibleRange(top, height, rowHeight, buf, length) ==
    LET start == JsMinus(MathFloorDiv(top, rowHeight), buf)
        end == JsPlus(MathCeilDiv(top + height, rowHeight), buf)
    IN  [start |-> MathMax(0, start), end |-> MathMin(length, end)]

visibleRange ==
    computeVisibleRange(scrollTop, actualContainerHeight, itemHeight, buffer,
                        itemsLength)

totalHeight == itemsLength * itemHeight

offsetY == JsTimes(visibleRange.start, itemHeight)

\* Array.prototype.slice(start, end) on an array of the given length, as the
\* set of indices it keeps (NaN converts to 0, Infinity to the length)
SliceIndices(length, start, end) ==
    LET from == IF IsFinite(start) THEN Min(start.v, length)
                ELSE IF start.kind = "Infinity" THEN length ELSE 0
        to == IF IsFinite(end) THEN Min(end.v, length)
              ELSE IF end.kind = "Infinity" THEN length ELSE 0
    IN  {i \in 0..(length - 1) : from <= i /\ i < to}

visibleItems ==
    IF itemsLength = 0 THEN {}
    ELSE SliceIndices(itemsLength, visibleRange.start, visibleRange.end)

\* ---------------------------------------------------- the scroll container
\* The largest scrollTop the element accepts: its scroll height (the track
\* of totalHeight pixels) less its client height.
maxScrollTop(length, height) == Max(0, length * itemHeight - height)

clampScrollTop(value, length, height) ==
    Max(0, Min(value, maxScrollTop(length, height)))

Event(op, arg) == [op |-> op, arg |-> arg]

\* ----------------------------------------------------------------- handlers
emit(payload) ==
    /\ emitted' = <<payload>>
    /\ notified' = <<payload>>

\* an operation that reaches no emit(...) call
noEmit ==
    /\ emitted' = <<>>
    /\ notified' = notified

\* updateContainerHeight emitting the range before it stores the height
updateContainerHeightEmitFirst(ref, height) ==
    IF ref
    THEN /\ emit(computeVisibleRange(scrollTop, actualContainerHeight, itemHeight,
                                     buffer, itemsLength))
         /\ actualContainerHeight' = height
    ELSE /\ actualContainerHeight' = actualContainerHeight
         /\ noEmit

\* updateContainerHeight, run while the element measures `height`
updateContainerHeight(ref, height) ==
    IF ref
    THEN /\ actualContainerHeight' = height
         /\ emit(computeVisibleRange(scrollTop, height, itemHeight, buffer,
                                     itemsLength))
    ELSE /\ actualContainerHeight' = actualContainerHeight
         /\ noEmit

\* handleScroll with the notification computed before the scroll offset is
\* stored: the range it carries is the one of the previous offset
handleScrollStale(target) ==
    IF containerRef
    THEN /\ scrollTop' = target
         /\ emit(visibleRange)
    ELSE /\ scrollTop' = scrollTop
         /\ noEmit

\* handleScroll(e), for an event whose target reports scrollTop = target
handleScroll(target) ==
    IF containerRef
    THEN /\ scrollTop' = target
         /\ emit(computeVisibleRange(target, actualContainerHeight, itemHeight,
                                     buffer, itemsLength))
    ELSE /\ scrollTop' = scrollTop
         /\ noEmit

\* ------------------------------------------------ JavaScript string values
\* Strings are TLA+ strings; positions count from 1.
DigitChars == <<"0", "1", "2", "3", "4", "5", "6", "7", "8", "9">>

IsDigit(c) == \E d \in 1..10 : DigitChars[d] = c

DigitValue(c) == (CHOOSE d \in 1..10 : DigitChars[d] = c) - 1

\* String.prototype.includes
includes(str, search) ==
    \E i \in 1..(Len(str) - Len(search) + 1) :
        SubSeq(str, i, i + Len(search) - 1) = search

\* String.prototype.split for a separator of one character
RECURSIVE split(_, _)
split(str, separator) ==
    IF \E i \in 1..Len(str) : SubSeq(str, i, i) = separator
    THEN LET i == CHOOSE k \in 1..Len(str) :
                      /\ SubSeq(str, k, k) = separator
                      /\ \A j \in 1..(k - 1) : SubSeq(str, j, j) # separator
         IN  <<SubSeq(str, 1, i - 1)>>
                 \o split(SubSeq(str, i + 1, Len(str)), separator)
    ELSE <<str>>

\* Array.prototype.join
RECURSIVE join(_, _)
join(parts, separator) ==
    IF Len(parts) = 0 THEN ""
    ELSE IF Len(parts) = 1 THEN parts[1]
    ELSE parts[1] \o separator \o join(Tail(parts), separator)

\* the number of decimal digits str starts with
RECURSIVE LeadingDigits(_)
LeadingDigits(str) ==
    IF Len(str) = 0 \/ ~IsDigit(SubSeq(str, 1, 1)) THEN 0
    ELSE 1 + LeadingDigits(SubSeq(str, 2, Len(str)))

\* the value of a string of decimal digits, acc being the value read so far
RECURSIVE DigitsValue(_, _)
DigitsValue(digits, acc) ==
    IF Len(digits) = 0 THEN acc
    ELSE DigitsValue(SubSeq(digits, 2, Len(digits)),
                     10 * acc + DigitValue(SubSeq(digits, 1, 1)))

\* parseInt(str) for a string of digits, dots and letters: the number its
\* leading digits spell, NaN when it starts with none
parseInt(str) ==
    IF LeadingDigits(str) = 0 THEN NaN
    ELSE Num(DigitsValue(SubSeq(str, 1, LeadingDigits(str)), 0))

\* the decimal numeral of n >= 0
RECURSIVE Numeral(_)
Numeral(n) ==
    IF n < 10 THEN DigitChars[n + 1]
    ELSE Numeral(n \div 10) \o DigitChars[(n % 10) + 1]

\* String(x) for a number that is NaN or a whole number >= 0
String(x) == IF IsFinite(x) THEN Numeral(x.v) ELSE "NaN"

\* ------------------------------------------------------ the version plugin
\* defaultVersionIncrementer with the + applied to the string of the third
\* part: "1" is appended instead of added
defaultVersionIncrementerAppend(currentVersion) ==
    LET versionParts == split(currentVersion, ".")
        third == IF Len(versionParts) >= 3 /\ versionParts[3] # ""
                 THEN versionParts[3] ELSE "0"
        assigned == [i \in 1..Max(3, Len(versionParts)) |->
                        IF i = 3 THEN third \o "1"
                        ELSE IF i <= Len(versionParts) THEN versionParts[i]
                        ELSE ""]
    IN  join(assigned, ".")

\* defaultVersionIncrementer: the array the split gives has its element of
\* index 2 assigned (the array grows to 3 elements when it is shorter, and
\* join writes its holes as empty strings)
defaultVersionIncrementer(currentVersion) ==
    LET versionParts == split(currentVersion, ".")
        third == IF Len(versionParts) >= 3 /\ versionParts[3] # ""
                 THEN versionParts[3] ELSE "0"
        assigned == [i \in 1..Max(3, Len(versionParts)) |->
                        IF i = 3 THEN String(JsPlus(parseInt(third), 1))
                        ELSE IF i <= Len(versionParts) THEN versionParts[i]
                        ELSE ""]
    IN  join(assigned, ".")

\* the options of vitePluginVersionManager() called without arguments;
\* productionOnly exists in part_000 only, and index.ts always behaves as if
\* it were true; enableVersionedConfig exists in index.ts only
defaultOptions ==
    [autoIncrement |-> TRUE,
     cleanOldVersions |-> TRUE,
     excludeFromCleanup |-> {"config.json"},
     enableVersionedConfig |-> FALSE,
     productionOnly |-> TRUE]

\* an entry of the dist directory: a directory (config is the config.json
\* inside it, <<>> when it has none) or a plain file (config is its parsed
\* content when it is dist/config.json)
Directory(name, config) ==
    [name |-> name, isDirectory |-> TRUE, config |-> config]

File(name, config) ==
    [name |-> name, isDirectory |-> FALSE, config |-> config]

HookEvent(op, fault, result) == [op |-> op, fault |-> fault, result |-> result]

Snapshot ==
    [packageJson |-> packageJson, distExists |-> distExists,
     distEntries |-> distEntries]

\* The plugin runs in the build and the component in the browser: while the
\* component is at work no plugin is loaded, and the plugin's variables hold
\* nothing.
PluginNotLoaded ==
    /\ pluginFile = "none"
    /\ nodeEnv = "none"
    /\ options = "none"
    /\ packageJson = "none"
    /\ distExists = FALSE
    /\ distEntries = {}
    /\ phase = "none"
    /\ builds = 0
    /\ pluginEvent = "none"
    /\ atHookStart = "none"
    /\ completed = "none"

\* ------------------------------------------------ the component at work
Init ==
    /\ itemsLength \in 0..MaxItems
    /\ itemHeight \in 0..MaxItemHeight
    /\ bufferProp \in BufferProps
    /\ containerRef = FALSE
    /\ scrollTop = 0
    /\ actualContainerHeight = 0
    /\ elScrollTop = 0
    /\ clientHeight = 0
    /\ scrollEventQueued = FALSE
    /\ nextTickQueued = FALSE
    /\ emitted = <<>>
    /\ notified = <<>>
    /\ lastEvent = [op |-> "setup", arg |-> 0]
    /\ PluginNotLoaded

\* the component is mounted into a container that lays out `height` pixels
\* high: the template ref is set and onMounted runs
Mount(height) ==
    /\ ~containerRef
    /\ containerRef' = TRUE
    /\ clientHeight' = height
    /\ updateContainerHeight(containerRef', height)
    /\ nextTickQueued' = TRUE
    /\ lastEvent' = Event("mount", height)
    /\ UNCHANGED pluginVars
    /\ UNCHANGED <<itemsLength, itemHeight, bufferProp, scrollTop, elScrollTop,
                   scrollEventQueued>>

\* the callback onMounted gave to nextTick
NextTick ==
    /\ nextTickQueued
    /\ emit(visibleRange)
    /\ nextTickQueued' = FALSE
    /\ lastEvent' = Event("nextTick", 0)
    /\ UNCHANGED pluginVars
    /\ UNCHANGED <<itemsLength, itemHeight, bufferProp, containerRef, scrollTop,
                   actualContainerHeight, elScrollTop, clientHeight,
                   scrollEventQueued>>

\* the user scrolls the container to `offset` and the 'scroll' listener runs
\* (the element dispatches one scroll event for its latest position)
UserScroll(offset) ==
    /\ containerRef
    /\ ~nextTickQueued
    /\ offset <= maxScrollTop(itemsLength, clientHeight)
    /\ offset # elScrollTop
    /\ elScrollTop' = offset
    /\ scrollEventQueued' = FALSE
    /\ handleScroll(offset)
    /\ lastEvent' = Event("userScroll", offset)
    /\ UNCHANGED pluginVars
    /\ UNCHANGED <<itemsLength, itemHeight, bufferProp, containerRef,
                   actualContainerHeight, clientHeight, nextTickQueued>>

\* the 'scroll' listener runs for the scroll event that a change of the
\* element's scrollTop by the component or by layout queued
ScrollEvent ==
    /\ scrollEventQueued
    /\ ~nextTickQueued
    /\ scrollEventQueued' = FALSE
    /\ handleScroll(elScrollTop)
    /\ lastEvent' = Event("scrollEvent", elScrollTop)
    /\ UNCHANGED pluginVars
    /\ UNCHANGED <<itemsLength, itemHeight, bufferProp, containerRef, elScrollTop,
                   actualContainerHeight, clientHeight, nextTickQueued>>

\* the container's rendered size changes to `height`; the element keeps its
\* scrollTop within the new range and the ResizeObserver callback runs
Resize(height) ==
    /\ containerRef
    /\ ~nextTickQueued
    /\ height # clientHeight
    /\ clientHeight' = height
    /\ elScrollTop' = clampScrollTop(elScrollTop, itemsLength, height)
    /\ scrollEventQueued' = (scrollEventQueued \/ elScrollTop' # elScrollTop)
    /\ updateContainerHeight(containerRef, height)
    /\ lastEvent' = Event("resize", height)
    /\ UNCHANGED pluginVars
    /\ UNCHANGED <<itemsLength, itemHeight, bufferProp, containerRef, scrollTop,
                   nextTickQueued>>

\* scrollToIndex keeping the offset it asked for instead of reading the
\* element's scrollTop back
scrollToIndexNoReadBack(index) ==
    /\ containerRef
    /\ elScrollTop' = clampScrollTop(index * itemHeight, itemsLength, clientHeight)
    /\ scrollTop' = index * itemHeight
    /\ emit(computeVisibleRange(scrollTop', actualContainerHeight, itemHeight,
                                buffer, itemsLength))
    /\ scrollEventQueued' = (scrollEventQueued \/ elScrollTop' # elScrollTop)
    /\ lastEvent' = Event("scrollToIndex", index)
    /\ UNCHANGED pluginVars
    /\ UNCHANGED <<itemsLength, itemHeight, bufferProp, containerRef,
                   actualContainerHeight, clientHeight, nextTickQueued>>

\* the exposed method scrollToIndex(index)
scrollToIndex(index) ==
    /\ containerRef
    /\ elScrollTop' = clampScrollTop(index * itemHeight, itemsLength, clientHeight)
    /\ scrollTop' = elScrollTop'
    /\ emit(computeVisibleRange(scrollTop', actualContainerHeight, itemHeight,
                                buffer, itemsLength))
    /\ scrollEventQueued' = (scrollEventQueued \/ elScrollTop' # elScrollTop)
    /\ lastEvent' = Event("scrollToIndex", index)
    /\ UNCHANGED pluginVars
    /\ UNCHANGED <<itemsLength, itemHeight, bufferProp, containerRef,
                   actualContainerHeight, clientHeight, nextTickQueued>>

\* the callback of watch(() => props.items, ..., {deep: true}), called with
\* arrays of the given lengths, followed by the re-render of the track at the
\* length the list now has
itemsWatcher(newItemsLength, oldItemsLength, length) ==
    /\ IF newItemsLength # oldItemsLength
       THEN /\ scrollTop' = 0
            /\ elScrollTop' = (IF containerRef THEN 0 ELSE elScrollTop)
       ELSE /\ scrollTop' = scrollTop
            /\ elScrollTop' = clampScrollTop(elScrollTop, length, clientHeight)
    /\ scrollEventQueued' = (scrollEventQueued \/ elScrollTop' # elScrollTop)

\* the parent passes a new array of `length` items: the watcher receives the
\* new and the old array
ReplaceItems(length) ==
    /\ containerRef
    /\ ~nextTickQueued
    /\ itemsLength' = length
    /\ itemsWatcher(length, itemsLength, length)
    /\ noEmit
    /\ lastEvent' = Event("replaceItems", length)
    /\ UNCHANGED pluginVars
    /\ UNCHANGED <<itemHeight, bufferProp, containerRef, actualContainerHeight,
                   clientHeight, nextTickQueued>>

\* the parent mutates the array it passed (push, splice, an element's field)
\* leaving it `length` items long: the deep watcher receives the same array
\* as new and as old value
MutateItems(length) ==
    /\ containerRef
    /\ ~nextTickQueued
    /\ itemsLength' = length
    /\ itemsWatcher(length, length, length)
    /\ noEmit
    /\ lastEvent' = Event("mutateItems", length)
    /\ UNCHANGED pluginVars
    /\ UNCHANGED <<itemHeight, bufferProp, containerRef, actualContainerHeight,
                   clientHeight, nextTickQueued>>

Next ==
    \/ \E height \in 0..MaxViewport : Mount(height)
    \/ NextTick
    \/ \E offset \in 0..(MaxItems * MaxItemHeight) : UserScroll(offset)
    \/ ScrollEvent
    \/ \E height \in 0..MaxViewport : Resize(height)
    \/ \E index \in 0..MaxIndex : scrollToIndex(index)
    \/ \E length \in 0..MaxItems : ReplaceItems(length)
    \/ \E length \in 0..MaxItems : MutateItems(length)

Spec == Init /\ [][Next]_vars

\* ------------------------------------------- the range computation alone
\* The computed values as a function of their inputs: the props are drawn at
\* the start and every value of the three reactive inputs can follow every
\* other.  lastEvent.arg holds the value the input had before the change.
CalcInit ==
    /\ itemHeight \in 0..MaxItemHeight
    /\ bufferProp \in BufferProps
    /\ itemsLength \in 0..MaxItems
    /\ scrollTop = 0
    /\ actualContainerHeight = 0
    /\ containerRef = FALSE
    /\ elScrollTop = 0
    /\ clientHeight = 0
    /\ scrollEventQueued = FALSE
    /\ nextTickQueued = FALSE
    /\ emitted = <<>>
    /\ notified = <<>>
    /\ lastEvent = [op |-> "setup", arg |-> 0]
    /\ PluginNotLoaded

CalcScroll(offset) ==
    /\ scrollTop' = offset
    /\ lastEvent' = Event("calcScroll", scrollTop)
    /\ UNCHANGED pluginVars
    /\ UNCHANGED <<itemsLength, itemHeight, bufferProp, containerRef,
                   actualContainerHeight, elScrollTop, clientHeight,
                   scrollEventQueued, nextTickQueued, emitted, notified>>

CalcResize(height) ==
    /\ actualContainerHeight' = height
    /\ lastEvent' = Event("calcResize", actualContainerHeight)
    /\ UNCHANGED pluginVars
    /\ UNCHANGED <<itemsLength, itemHeight, bufferProp, containerRef, scrollTop,
                   elScrollTop, clientHeight, scrollEventQueued, nextTickQueued,
                   emitted, notified>>

CalcItems(length) ==
    /\ itemsLength' = length
    /\ lastEvent' = Event("calcItems", itemsLength)
    /\ UNCHANGED pluginVars
    /\ UNCHANGED <<itemHeight, bufferProp, containerRef, scrollTop,
                   actualContainerHeight, elScrollTop, clientHeight,
                   scrollEventQueued, nextTickQueued, emitted, notified>>

CalcNext ==
    \/ \E offset \in 0..MaxOffset : CalcScroll(offset)
    \/ \E height \in 0..MaxViewport : CalcResize(height)
    \/ \E length \in 0..MaxItems : CalcItems(length)

CalcSpec == CalcInit /\ [][CalcNext]_vars

\* ============================================================ the plugin
\* One build after another under the plugin: Rollup calls buildStart, the
\* bundle is written into dist, Rollup calls closeBundle.  A file-system or
\* parse call of a hook either succeeds or fails; `fault` names the call
\* that fails in this run of the hook ("none": every call succeeds).  A
\* write that fails leaves its file as it was.
ComponentAtRest ==
    /\ itemsLength = 0
    /\ itemHeight = 1
    /\ bufferProp = <<>>
    /\ containerRef = FALSE
    /\ scrollTop = 0
    /\ actualContainerHeight = 0
    /\ elScrollTop = 0
    /\ clientHeight = 0
    /\ scrollEventQueued = FALSE
    /\ nextTickQueued = FALSE
    /\ emitted = <<>>
    /\ notified = <<>>
    /\ lastEvent = [op |-> "setup", arg |-> 0]

PluginFiles == {"index.ts", "part_000"}

\* the default list, and the list of the README's example
ExcludeLists == {{"config.json"}, {"config.json", "latest"}}

OptionsOf(file) ==
    {o \in [autoIncrement : BOOLEAN,
            cleanOldVersions : BOOLEAN,
            excludeFromCleanup : ExcludeLists,
            enableVersionedConfig : BOOLEAN,
            productionOnly : BOOLEAN] :
        IF file = "index.ts" THEN o.productionOnly
        ELSE ~o.enableVersionedConfig}

Versions == {"1.0.1", "1.0.9"}

\* the content of a config.json: the fields of ConfigJson that the builds
\* make differ
ConfigJson(version, indexHtml, publishTime) ==
    [version |-> version, indexHtml |-> indexHtml,
     publishTime |-> publishTime]

\* a dist directory as earlier builds and the user left it
DistLayout(version) ==
    {Directory("1.0.0", <<ConfigJson("1.0.0", FALSE, 0)>>),
     Directory(version, <<>>),
     Directory("latest", <<>>),
     Directory("latest.bak", <<>>),
     File("config.json", <<ConfigJson("1.0.0", FALSE, 0)>>)}

PluginInit ==
    /\ ComponentAtRest
    /\ pluginFile \in PluginFiles
    /\ nodeEnv \in {"production", "development"}
    /\ options \in OptionsOf(pluginFile)
    /\ \E version \in Versions :
        /\ packageJson = [version |-> version, lastBuildTime |-> <<>>]
        /\ \/ distExists = FALSE /\ distEntries = {}
           \/ distExists = TRUE /\ distEntries \in {{}, DistLayout(version)}
    /\ phase = "idle"
    /\ builds = 0
    /\ pluginEvent = HookEvent("setup", "none", "ok")
    /\ atHookStart = Snapshot
    /\ completed = [version |-> packageJson.version, builds |-> 0]

\* the hook returns at once: the environment check of its first lines
skipInDevelopment ==
    IF pluginFile = "index.ts" THEN nodeEnv # "production"
    ELSE options.productionOnly /\ nodeEnv # "production"

\* shouldExclude with === alone, without the includes test
shouldExcludeExact(name) ==
    \E exclude \in options.excludeFromCleanup : name = exclude

shouldExclude(name) ==
    \E exclude \in options.excludeFromCleanup :
        name = exclude \/ includes(name, exclude)

\* the entries the cleanup loop hands to fs.rm
oldDirectories(files, currentVersion) ==
    {file \in files : /\ file.isDirectory
                      /\ file.name # currentVersion
                      /\ ~shouldExclude(file.name)}

\* what the cleanup of a buildStart that runs now is to remove: nothing
\* when it is switched off or readdir finds no dist directory
toRemove ==
    IF options.cleanOldVersions /\ distExists
    THEN oldDirectories(distEntries, packageJson.version)
    ELSE {}

\* the auto increment with the incrementer applied twice
incrementedTwice(pkg, now) ==
    [version |-> defaultVersionIncrementer(
                     defaultVersionIncrementer(pkg.version)),
     lastBuildTime |-> <<now>>]

\* packageJson after the auto increment, stamped at time `now`
incremented(pkg, now) ==
    [version |-> defaultVersionIncrementer(pkg.version),
     lastBuildTime |-> <<now>>]

\* buildStart without the environment check
BuildStartAlways(fault) ==
    /\ phase = "idle"
    /\ builds < MaxBuilds
    /\ builds' = builds + 1
    /\ atHookStart' = Snapshot
    /\ fault = "none"
    /\ distEntries' = distEntries \ toRemove
    /\ packageJson' = packageJson
    /\ phase' = "bundling"
    /\ pluginEvent' = HookEvent("buildStart", "none", "ok")
    /\ UNCHANGED <<distExists, pluginFile, nodeEnv, options, completed>>
    /\ UNCHANGED componentVars

\* the calls of buildStart that can fail in the present state
BuildStartFaults ==
    {"none", "readFile", "JSON.parse"}
        \cup (IF options.cleanOldVersions /\ distExists
              THEN {"readdir"} ELSE {})
        \cup (IF toRemove # {} THEN {"rm"} ELSE {})
        \cup (IF pluginFile = "part_000" /\ options.autoIncrement
              THEN {"writeFile"} ELSE {})

\* the code of the error fs.readdir(dist) fails with, "none" when it succeeds
readdirError(fault) ==
    IF ~distExists THEN "ENOENT"
    ELSE IF fault = "readdir" THEN "EACCES"
    ELSE "none"

\* the catch of the cleanup with the test of the code left out
cleanupRethrowsAll(code) == TRUE

\* the catch of the cleanup: an error of the file system, which carries a
\* code, is thrown on unless the code is ENOENT
cleanupRethrows(code) == code # "ENOENT"

\* the hook ends by throwing: the outer catch rethrows whatever reaches it
buildStartThrows(fault) ==
    \/ fault \in {"readFile", "JSON.parse", "writeFile"}
    \/ /\ options.cleanOldVersions
       /\ \/ /\ readdirError(fault) # "none"
             /\ cleanupRethrows(readdirError(fault))
          \/ /\ fault = "rm"
             /\ cleanupRethrows("EACCES")

\* The buildStart hook.  `removed` are the directories fs.rm removed: all of
\* the old ones, unless a call failed before the loop (none) or in it (those
\* the loop came to before the failing one).
BuildStart(fault) ==
    /\ phase = "idle"
    /\ builds < MaxBuilds
    /\ builds' = builds + 1
    /\ atHookStart' = Snapshot
    /\ IF skipInDevelopment
       THEN /\ fault = "none"
            /\ phase' = "bundling"
            /\ pluginEvent' = HookEvent("buildStart", "none", "skipped")
            /\ UNCHANGED <<packageJson, distEntries>>
       ELSE /\ fault \in BuildStartFaults
            /\ \E removed \in SUBSET toRemove :
                /\ CASE fault \in {"readFile", "JSON.parse", "readdir"} ->
                            removed = {}
                     [] fault = "rm" -> removed # toRemove
                     [] OTHER -> removed = toRemove
                /\ distEntries' = distEntries \ removed
            /\ packageJson' =
                   IF /\ pluginFile = "part_000"
                      /\ options.autoIncrement
                      /\ ~buildStartThrows(fault)
                   THEN incremented(packageJson, builds')
                   ELSE packageJson
            /\ phase' = IF buildStartThrows(fault) THEN "idle" ELSE "bundling"
            /\ pluginEvent' =
                   HookEvent("buildStart", fault,
                             IF buildStartThrows(fault) THEN "threw" ELSE "ok")
    /\ UNCHANGED <<distExists, pluginFile, nodeEnv, options, completed>>
    /\ UNCHANGED componentVars

\* The build tool writes the bundle into dist, with or without an index.html
\* at its top.
Bundle(writesIndexHtml) ==
    /\ phase = "bundling"
    /\ phase' = "bundled"
    /\ distExists' = TRUE
    /\ distEntries' =
           IF writesIndexHtml
           THEN {e \in distEntries : e.name # "index.html"}
                    \cup {File("index.html", <<>>)}
           ELSE distEntries
    /\ pluginEvent' = HookEvent("bundle", "none", "ok")
    /\ UNCHANGED <<pluginFile, nodeEnv, options, packageJson, builds,
                   atHookStart, completed>>
    /\ UNCHANGED componentVars

\* the calls of closeBundle in the order the hook makes them
closeBundleCalls ==
    <<"readFile", "JSON.parse", "readIndexHtml", "unlinkIndexHtml",
      "readConfig", "writeConfig", "mkdir", "writeVersionConfig",
      "writePackageJson">>

CallIndex(call) ==
    CHOOSE i \in 1..Len(closeBundleCalls) : closeBundleCalls[i] = call

\* the call was reached and succeeded
Completed(call, fault) ==
    fault = "none" \/ CallIndex(call) < CallIndex(fault)

hasFile(files, name) == \E e \in files : e.name = name /\ ~e.isDirectory

\* fs.writeFile of dist/<name>
writeFile(files, name, config) ==
    {e \in files : e.name # name} \cup {File(name, <<config>>)}

\* fs.mkdir(dist/<name>, { recursive: true })
mkdir(files, name) ==
    IF \E e \in files : e.name = name /\ e.isDirectory THEN files
    ELSE files \cup {Directory(name, <<>>)}

\* fs.writeFile of dist/<name>/config.json
writeVersionConfig(files, name, config) ==
    {e \in files : e.name # name} \cup {Directory(name, <<config>>)}

\* generateVersionedConfig: the existing dist/config.json contributes only
\* keys the new config lacks, and ConfigJson's keys are all set anew
generateVersionedConfig(files, pkg, fault, now) ==
    LET version == pkg.version
        indexHtml == hasFile(files, "index.html")
        config == ConfigJson(version, indexHtml, now)
        unlinked == IF indexHtml /\ Completed("unlinkIndexHtml", fault)
                    THEN {e \in files : e.name # "index.html"} ELSE files
        mainWritten == IF Completed("writeConfig", fault)
                       THEN writeFile(unlinked, "config.json", config)
                       ELSE unlinked
        directoryMade == IF Completed("mkdir", fault)
                         THEN mkdir(mainWritten, version) ELSE mainWritten
    IN  IF Completed("writeVersionConfig", fault)
        THEN writeVersionConfig(directoryMade, version, config)
        ELSE directoryMade

\* the calls of closeBundle that can fail in the present state
CloseBundleFaults ==
    {"none", "readFile", "JSON.parse"}
        \cup (IF options.enableVersionedConfig
              THEN {"writeConfig", "mkdir", "writeVersionConfig"}
                   \cup (IF hasFile(distEntries, "index.html")
                         THEN {"readIndexHtml", "unlinkIndexHtml"} ELSE {})
                   \cup (IF hasFile(distEntries, "config.json")
                         THEN {"readConfig"} ELSE {})
              ELSE {})
        \cup (IF options.autoIncrement THEN {"writePackageJson"} ELSE {})

\* closeBundle with the version written before the config files
CloseBundleIncrementFirst(fault) ==
    /\ phase = "bundled"
    /\ phase' = "idle"
    /\ atHookStart' = Snapshot
    /\ IF pluginFile = "part_000" \/ skipInDevelopment
       THEN /\ fault = "none"
            /\ pluginEvent' = HookEvent("closeBundle", "none", "skipped")
            /\ UNCHANGED <<packageJson, distEntries>>
       ELSE /\ fault \in CloseBundleFaults
            /\ packageJson' =
                   IF options.autoIncrement /\ Completed("JSON.parse", fault)
                   THEN incremented(packageJson, builds)
                   ELSE packageJson
            /\ distEntries' =
                   IF /\ options.enableVersionedConfig
                      /\ Completed("JSON.parse", fault)
                   THEN generateVersionedConfig(distEntries, packageJson',
                                                fault, builds)
                   ELSE distEntries
            /\ pluginEvent' =
                   HookEvent("closeBundle", fault,
                             IF fault = "none" THEN "ok" ELSE "threw")
    /\ completed' = IF pluginEvent'.result = "threw" THEN completed
                    ELSE [completed EXCEPT !.builds = @ + 1]
    /\ UNCHANGED <<distExists, pluginFile, nodeEnv, options, builds>>
    /\ UNCHANGED componentVars

\* The closeBundle hook; part_000 registers none.
CloseBundle(fault) ==
    /\ phase = "bundled"
    /\ phase' = "idle"
    /\ atHookStart' = Snapshot
    /\ IF pluginFile = "part_000" \/ skipInDevelopment
       THEN /\ fault = "none"
            /\ pluginEvent' = HookEvent("closeBundle", "none", "skipped")
            /\ UNCHANGED <<packageJson, distEntries>>
       ELSE /\ fault \in CloseBundleFaults
            /\ distEntries' =
                   IF /\ options.enableVersionedConfig
                      /\ Completed("JSON.parse", fault)
                   THEN generateVersionedConfig(distEntries, packageJson,
                                                fault, builds)
                   ELSE distEntries
            /\ packageJson' =
                   IF /\ options.autoIncrement
                      /\ Completed("writePackageJson", fault)
                   THEN incremented(packageJson, builds)
                   ELSE packageJson
            /\ pluginEvent' =
                   HookEvent("closeBundle", fault,
                             IF fault = "none" THEN "ok" ELSE "threw")
    /\ completed' = IF pluginEvent'.result = "threw" THEN completed
                    ELSE [completed EXCEPT !.builds = @ + 1]
    /\ UNCHANGED <<distExists, pluginFile, nodeEnv, options, builds>>
    /\ UNCHANGED componentVars

PluginNext ==
    \/ \E fault \in {"none", "readFile", "JSON.parse", "readdir", "rm",
                     "writeFile"} : BuildStart(fault)
    \/ \E writesIndexHtml \in BOOLEAN : Bundle(writesIndexHtml)
    \/ \E fault \in {closeBundleCalls[i] : i \in 1..Len(closeBundleCalls)}
                        \cup {"none"} : CloseBundle(fault)

PluginSpec == PluginInit /\ [][PluginNext]_vars

\* ------------------------------------------- the incrementer on its own
\* The versions of three numerals of up to MaxDigits digits each
Numerals ==
    UNION {{join(digits, "") : digits \in [1..n -> {"0", "1", "9"}]} :
              n \in 1..MaxDigits}

NumericVersions ==
    {join(<<major, minor, patch>>, ".") :
        major \in {"0", "1"}, minor \in Numerals, patch \in Numerals}

\* a production build with the default options stands before its
\* closeBundle, package.json holding any of the versions
IncrementerInit ==
    /\ ComponentAtRest
    /\ pluginFile = "index.ts"
    /\ nodeEnv = "production"
    /\ options = defaultOptions
    /\ packageJson \in [version : NumericVersions, lastBuildTime : {<<>>}]
    /\ distExists = TRUE
    /\ distEntries = {}
    /\ phase = "bundled"
    /\ builds = 1
    /\ pluginEvent = HookEvent("bundle", "none", "ok")
    /\ atHookStart = Snapshot
    /\ completed = [version |-> packageJson.version, builds |-> 0]

IncrementerNext == CloseBundle("none")

IncrementerSpec == IncrementerInit /\ [][IncrementerNext]_vars

\* ------------------------------------------------------------------ claims
\* The inputs the specification calls valid: itemHeight > 0 (the other inputs
\* are non-negative in every state).
ValidInput == itemHeight > 0

\* The bufferCount input: the buffer prop when supplied, 5 when omitted.
BufferCount == IF bufferProp = <<>> THEN defaultBuffer ELSE bufferProp[1]

\* the rows [i*itemHeight, (i+1)*itemHeight) that overlap the viewport
\* [scrollTop, scrollTop + actualContainerHeight)
RowsInViewport ==
    {i \in 0..(itemsLength - 1) :
        /\ i * itemHeight < scrollTop + actualContainerHeight
        /\ (i + 1) * itemHeight > scrollTop}

\* C1: for every valid input the visible range satisfies
\* 0 <= start <= end <= itemCount (an empty range has start = end).
C1_RangeWithinBounds ==
    ValidInput =>
        /\ IsFinite(visibleRange.start) /\ IsFinite(visibleRange.end)
        /\ 0 <= visibleRange.start.v
        /\ visibleRange.start.v <= visibleRange.end.v
        /\ visibleRange.end.v <= itemsLength

\* C2: when itemCount is 0 the range is {start: 0, end: 0} whatever the scroll
\* offset, viewport height, item height and buffer are.
C2_EmptyListGivesZeroRange ==
    (ValidInput /\ itemsLength = 0) =>
        visibleRange = [start |-> Num(0), end |-> Num(0)]

\* C3: for every valid input the render plan equals the reference definition:
\* start = max(0, floor(scrollOffset/itemHeight) - bufferCount),
\* end = min(itemCount, ceil((scrollOffset+viewportHeight)/itemHeight) + bufferCount),
\* pixelOffset = start*itemHeight, totalTrackHeight = itemCount*itemHeight;
\* with the two scenarios of the specification.
C3_PlanEqualsReference ==
    /\ ValidInput =>
         LET floorRows == CHOOSE q \in 0..scrollTop :
                 q * itemHeight <= scrollTop /\ scrollTop < (q + 1) * itemHeight
             bottom == scrollTop + actualContainerHeight
             ceilRows == CHOOSE q \in 0..bottom :
                 (q - 1) * itemHeight < bottom /\ bottom <= q * itemHeight
             start == Max(0, floorRows - BufferCount)
             end == Min(itemsLength, ceilRows + BufferCount)
         IN  /\ visibleRange = [start |-> Num(start), end |-> Num(end)]
             /\ offsetY = Num(start * itemHeight)
             /\ totalHeight = itemsLength * itemHeight
    /\ computeVisibleRange(1000, 400, 50, bufferOf(<<5>>), 10000)
         = [start |-> Num(15), end |-> Num(33)]
    /\ JsTimes(computeVisibleRange(1000, 400, 50, bufferOf(<<5>>), 10000).start, 50)
         = Num(750)
    /\ computeVisibleRange(0, 400, 50, bufferOf(<<5>>), 3)
         = [start |-> Num(0), end |-> Num(3)]

\* C4: for every valid input the window [start, end) holds every existing
\* row that overlaps the viewport and every existing row within bufferCount
\* rows of one.
C4_WindowCoversPaddedViewport ==
    ValidInput =>
        /\ IsFinite(visibleRange.start) /\ IsFinite(visibleRange.end)
        /\ \A i \in RowsInViewport :
             \A j \in 0..(itemsLength - 1) :
                (i - BufferCount <= j /\ j <= i + BufferCount) =>
                    /\ visibleRange.start.v <= j
                    /\ j < visibleRange.end.v
                    /\ j \in visibleItems

\* a window that stops short of both ends of the list around a viewport that
\* shows rows
C4_Witness ==
    /\ ValidInput
    /\ RowsInViewport # {}
    /\ BufferCount > 0
    /\ visibleRange.start.v > 0
    /\ visibleRange.end.v < itemsLength

\* C5: with the other inputs fixed, a scroll offset that does not decrease
\* never decreases start or end.
C5_MonotonicInScrollOffset ==
    [][(/\ ValidInput
        /\ scrollTop' >= scrollTop
        /\ UNCHANGED <<actualContainerHeight, itemsLength, itemHeight, bufferProp>>)
       => /\ visibleRange'.start.v >= visibleRange.start.v
          /\ visibleRange'.end.v >= visibleRange.end.v]_vars

\* the offset grew and moved both ends of the range
C5_Witness ==
    /\ ValidInput
    /\ lastEvent.op = "calcScroll"
    /\ lastEvent.arg < scrollTop
    /\ LET before == computeVisibleRange(lastEvent.arg, actualContainerHeight,
                                         itemHeight, buffer, itemsLength)
       IN  /\ before.start.v < visibleRange.start.v
           /\ before.end.v < visibleRange.end.v
           /\ visibleRange.start.v < visibleRange.end.v

\* C6: with itemHeight <= 0 the range computation fails with InvalidInput and
\* returns no range.
InvalidInput == [error |-> "InvalidInput"]

C6_NonPositiveItemHeightRejected ==
    (itemHeight <= 0) => visibleRange = InvalidInput

\* C7 as stated: scrollToIndex(index) on a mounted component, for an index of
\* the list, sets the scroll offset to index * itemHeight and emits the range
\* of that offset, as a user scroll event to it would.
C7_ScrollToIndexSetsIndexTimesHeight ==
    (ValidInput /\ lastEvent.op = "scrollToIndex" /\ lastEvent.arg < itemsLength) =>
        /\ scrollTop = lastEvent.arg * itemHeight
        /\ emitted = <<computeVisibleRange(lastEvent.arg * itemHeight,
                                           actualContainerHeight, itemHeight,
                                           buffer, itemsLength)>>

\* C7 as amended: scrollToIndex(index) on a mounted component sets the
\* container's scroll offset to index * itemHeight clamped to what the
\* container can scroll, and its step on the component's state is the step
\* handleScroll takes for a scroll event at that clamped offset.
C7_ScrollToIndexActsAsScrollEvent ==
    [][lastEvent'.op = "scrollToIndex" =>
         LET offset == clampScrollTop(lastEvent'.arg * itemHeight, itemsLength,
                                      clientHeight)
         IN  /\ containerRef
             /\ elScrollTop' = offset
             /\ handleScroll(offset)
             /\ UNCHANGED <<actualContainerHeight, itemsLength, itemHeight,
                            bufferProp, containerRef, clientHeight>>]_vars

\* scrollToIndex asked for an offset beyond the container's range and moved
\* the window
C7_Witness ==
    /\ ValidInput
    /\ lastEvent.op = "scrollToIndex"
    /\ lastEvent.arg * itemHeight > scrollTop
    /\ scrollTop > 0
    /\ visibleRange.start.v > 0
    /\ emitted = <<visibleRange>>

\* C8: whenever the length of the item sequence changes, the tracked offset
\* and the container's scroll position are reset to 0; when the items change
\* and the length does not, both are left as they were.
C8_LengthChangeResetsScroll ==
    [][/\ (containerRef /\ itemsLength' # itemsLength)
          => (scrollTop' = 0 /\ elScrollTop' = 0)
       /\ (/\ lastEvent'.op \in {"replaceItems", "mutateItems"}
           /\ itemsLength' = itemsLength)
          => (scrollTop' = scrollTop /\ elScrollTop' = elScrollTop)]_vars

\* C9: whenever an event makes the computed range differ from the range last
\* notified, handling that event emits a notification carrying the new range.
C9_RangeChangeIsNotified ==
    [][(ValidInput /\ notified # <<>> /\ <<visibleRange'>> # notified)
       => emitted' = <<visibleRange'>>]_vars

\* C10: once the component is mounted a notification has been emitted, and
\* the one emitted by mounting carries the range of the measured viewport
\* height.
C10_BaselineAfterMount ==
    /\ containerRef => notified # <<>>
    /\ lastEvent.op = "mount" =>
         /\ emitted = <<computeVisibleRange(scrollTop, lastEvent.arg, itemHeight,
                                            buffer, itemsLength)>>
         /\ clientHeight = lastEvent.arg
         /\ nextTickQueued

\* mounted at a height whose range differs from the range of height 0
C10_Witness ==
    /\ ValidInput
    /\ lastEvent.op = "mount"
    /\ lastEvent.arg > 0
    /\ emitted = <<visibleRange>>
    /\ visibleRange # computeVisibleRange(scrollTop, 0, itemHeight, buffer,
                                          itemsLength)

\* C11: every triggering event (a scroll, a change of the viewport size, a
\* change of the item sequence, a scrollToIndex call) produces a
\* visible-change notification, whether or not the range differs from the
\* one last notified.
C11_EveryEventEmits ==
    /\ containerRef
    /\ ValidInput
    /\ lastEvent.op \in {"userScroll", "scrollEvent", "resize",
                         "scrollToIndex", "replaceItems", "mutateItems"}
    => Len(emitted) = 1

\* C12: the range is padded by the buffer prop whenever the prop is given,
\* 0 included, and by the default 5 only when the prop is omitted.
C12_BufferPropHonoured ==
    ValidInput =>
        /\ buffer = BufferCount
        /\ visibleRange = computeVisibleRange(scrollTop, actualContainerHeight,
                                              itemHeight, BufferCount,
                                              itemsLength)

\* C20: every visible-change notification carries the range computed from
\* the scroll offset, viewport height, item count, item height and buffer
\* as they stand after the event's update, and the rendered slice is
\* items[start, end) of that same range.
C20_NotificationIsCurrentRange ==
    /\ emitted # <<>> =>
            emitted = <<computeVisibleRange(scrollTop, actualContainerHeight,
                                            itemHeight, buffer, itemsLength)>>
    /\ ValidInput =>
            visibleItems = {i \in 0..(itemsLength - 1) :
                                /\ visibleRange.start.v <= i
                                /\ i < visibleRange.end.v}

\* a scroll event moved the window: the notification carries a range that
\* differs from the one at offset 0, and the slice rendered is not empty
C20_Witness ==
    /\ ValidInput
    /\ lastEvent.op = "userScroll"
    /\ emitted = <<visibleRange>>
    /\ visibleRange # computeVisibleRange(0, actualContainerHeight, itemHeight,
                                          buffer, itemsLength)
    /\ visibleItems # {}

\* ------------------------------------------------- claims about the plugin
\* a hook of the plugin has just run to its end, normally or by throwing
HookRan(op) == pluginEvent.op = op

\* C13: with the default options and NODE_ENV other than 'production', the
\* buildStart and closeBundle hooks change nothing: no entry of dist is
\* deleted, package.json keeps its version and lastBuildTime, and no
\* config.json is written.
C13_DevelopmentBuildChangesNothing ==
    /\ options = defaultOptions
    /\ nodeEnv # "production"
    /\ HookRan("buildStart") \/ HookRan("closeBundle")
    => /\ packageJson = atHookStart.packageJson
       /\ distExists = atHookStart.distExists
       /\ distEntries = atHookStart.distEntries

\* a development build with the default options has gone through both hooks
\* over a dist directory that holds old directories and a package.json the
\* increment would change
C13_Witness ==
    /\ options = defaultOptions
    /\ nodeEnv # "production"
    /\ HookRan("closeBundle")
    /\ oldDirectories(distEntries, packageJson.version) # {}
    /\ packageJson.lastBuildTime = <<>>
    /\ builds = 1

\* the name neither equals nor contains a string of excludeFromCleanup
NotExcluded(name) ==
    \A exclude \in options.excludeFromCleanup :
        /\ name # exclude
        /\ \A i \in 1..Len(name), j \in 1..Len(name) :
               SubSeq(name, i, j) # exclude

\* C14: a buildStart that runs its cleanup to the end removes an entry of
\* dist if and only if cleanOldVersions is on, the entry is a directory, its
\* name differs from the version in package.json and its name neither equals
\* nor contains a string of excludeFromCleanup; plain files, the directory of
\* the current version and excluded directories stay, no entry is added, and
\* a buildStart that throws has removed no other entry either.
C14_CleanupRemovesExactlyOldDirectories ==
    /\ HookRan("buildStart")
    /\ pluginEvent.result # "skipped"
    => /\ distEntries \subseteq atHookStart.distEntries
       /\ \A e \in atHookStart.distEntries :
            LET old == /\ options.cleanOldVersions
                       /\ e.isDirectory
                       /\ e.name # atHookStart.packageJson.version
                       /\ NotExcluded(e.name)
            IN  /\ e \notin distEntries => old
                /\ pluginEvent.result = "ok" /\ old => e \notin distEntries

\* a buildStart has removed an old directory and kept a plain file, the
\* directory of the current version, and a directory whose name contains an
\* excluded string without being equal to it
C14_Witness ==
    /\ HookRan("buildStart")
    /\ pluginEvent.result = "ok"
    /\ atHookStart.distEntries \ distEntries # {}
    /\ \E e \in distEntries : ~e.isDirectory
    /\ \E e \in distEntries :
           e.isDirectory /\ e.name = atHookStart.packageJson.version
    /\ \E e \in distEntries :
           /\ e.isDirectory
           /\ e.name \notin options.excludeFromCleanup
           /\ ~NotExcluded(e.name)

\* str is a numeral: one decimal digit or more
IsNumeral(str) ==
    /\ Len(str) > 0
    /\ \A i \in 1..Len(str) : IsDigit(SubSeq(str, i, i))

\* C15: the default incrementer maps a version major.minor.patch of three
\* numerals to major.minor.(patch + 1): major and minor are kept as written,
\* the third part is the numeral of patch + 1, and what package.json then
\* holds is again a version of three numerals.
C15_IncrementerAddsOneToPatch ==
    /\ HookRan("closeBundle")
    /\ pluginEvent.result = "ok"
    /\ options.autoIncrement
    => LET before == split(atHookStart.packageJson.version, ".")
           after == split(packageJson.version, ".")
       IN  /\ Len(before) = 3
           /\ Len(after) = 3
           /\ after[1] = before[1]
           /\ after[2] = before[2]
           /\ \A i \in 1..3 : IsNumeral(after[i])
           /\ DigitsValue(after[3], 0) = DigitsValue(before[3], 0) + 1
           /\ after[3] = Numeral(DigitsValue(before[3], 0) + 1)

\* the increment of the claim's example, and one that carries into a new
\* digit
C15_Witness ==
    /\ HookRan("closeBundle")
    /\ pluginEvent.result = "ok"
    /\ \/ /\ atHookStart.packageJson.version = "1.0.1"
          /\ packageJson.version = "1.0.2"
       \/ /\ atHookStart.packageJson.version = "1.0.9"
          /\ packageJson.version = "1.0.10"

\* C16: in a build that is not skipped, with autoIncrement on, buildStart
\* reads the version, cleans the old directories and then writes the
\* incremented version and the lastBuildTime stamp to package.json: they are
\* written when the bundle is about to be produced, before any config.json
\* generation after the build.
C16_IncrementWrittenBeforeBundle ==
    /\ phase = "bundling"
    /\ HookRan("buildStart")
    /\ pluginEvent.result = "ok"
    /\ options.autoIncrement
    => /\ packageJson.version =
              defaultVersionIncrementer(atHookStart.packageJson.version)
       /\ packageJson.lastBuildTime # <<>>

\* dist holds config.json and <version>/config.json, both with the content
\* a closeBundle that ran at time `now` generates for `version`
BothConfigsWritten(version, now) ==
    \E config \in {e.config[1] : e \in {f \in distEntries : f.config # <<>>}} :
        /\ config.version = version
        /\ config.publishTime = now
        /\ File("config.json", <<config>>) \in distEntries
        /\ Directory(version, <<config>>) \in distEntries

C18_VersionConfigsKept ==
    /\ options = [defaultOptions EXCEPT !.enableVersionedConfig = TRUE]
    /\ nodeEnv = "production"
    => \A e \in atHookStart.distEntries :
           /\ e.isDirectory
           /\ e.config # <<>>
           /\ e.config[1].publishTime >= 1
           => \E f \in distEntries :
                  f.name = e.name /\ f.isDirectory /\ f.config # <<>>

\* C19: a buildStart that is not skipped ends normally when none of its
\* calls fails other than readdir on a missing dist directory (ENOENT), and
\* throws when any other call fails (reading or parsing package.json,
\* listing dist, removing an entry); and a buildStart that throws leaves
\* package.json as it found it.
C19_OnlyMissingDistIsTolerated ==
    /\ HookRan("buildStart")
    /\ pluginEvent.result # "skipped"
    => /\ pluginEvent.fault = "none" => pluginEvent.result = "ok"
       /\ pluginEvent.fault # "none" => pluginEvent.result = "threw"
       /\ pluginEvent.result = "threw" =>
              packageJson = atHookStart.packageJson

\* a buildStart with the cleanup on found no dist directory and ended
\* normally
C19_Witness ==
    /\ HookRan("buildStart")
    /\ options.cleanOldVersions
    /\ ~atHookStart.distExists
    /\ pluginEvent.fault = "none"
    /\ pluginEvent.result = "ok"
    /\ phase = "bundling"

\* ------------------------------------------- the size of the rendered slice
\* C21: for valid input the number of items materialized for rendering is at
\* most ceil(viewportHeight / itemHeight) + 1 + 2 * bufferCount, whatever
\* the length of the list, and is 0 whenever the computed start is at or
\* beyond the computed end.
C21_MaterializedCountBounded ==
    /\ ValidInput
    /\ containerRef
    => /\ Cardinality(visibleItems)
            <= MathCeilDiv(actualContainerHeight, itemHeight).v
                   + 1 + 2 * BufferCount
       /\ visibleRange.start.v >= visibleRange.end.v => visibleItems = {}

\* ------------------------------------------------ the version over builds
\* the default incrementer applied `times` times to `version`
RECURSIVE IncrementerApplied(_, _)
IncrementerApplied(version, times) ==
    IF times = 0 THEN version
    ELSE defaultVersionIncrementer(IncrementerApplied(version, times - 1))

\* C22: over any sequence of builds the plugin does not skip, with
\* autoIncrement on, every build both of whose hooks end normally applies the
\* incrementer to package.json exactly once: between builds, after k such
\* builds from version v, package.json holds the incrementer applied k times
\* to v (and a lastBuildTime once k > 0).  With autoIncrement off version
\* and lastBuildTime never change, and a hook that throws leaves them as it
\* found them.
C22_OneIncrementPerCompletedBuild ==
    ~skipInDevelopment =>
        /\ (phase = "idle" /\ options.autoIncrement) =>
              /\ packageJson.version =
                     IncrementerApplied(completed.version, completed.builds)
              /\ (completed.builds = 0) = (packageJson.lastBuildTime = <<>>)
        /\ ~options.autoIncrement =>
              packageJson = [version |-> completed.version,
                             lastBuildTime |-> <<>>]
        /\ pluginEvent.result = "threw" =>
              packageJson = atHookStart.packageJson

\* two builds have gone through both hooks and a third was ended by a hook
\* that threw: the version is the first one incremented twice
C22_Witness ==
    /\ ~skipInDevelopment
    /\ options.autoIncrement
    /\ phase = "idle"
    /\ completed.builds = 2
    /\ builds = 3
    /\ packageJson.version # completed.version
    /\ packageJson.version =
           defaultVersionIncrementer(
               defaultVersionIncrementer(completed.version))

====
